---- MODULE Spec2Model ----
(***************************************************************************)
(* Model of pgmpy.models.NaiveBayesModel: a directed graph restricted to   *)
(* one parent node with edges to its children, the guard on edge           *)
(* insertion, the active-trail and local-independence queries, and fit.    *)
(***************************************************************************)
EXTENDS Integers, Sequences, FiniteSets, TLC

VARIABLES parent_node, children_nodes, nodes, edges, last, ncalls

vars == <<parent_node, children_nodes, nodes, edges, last, ncalls>>

structure == <<parent_node, children_nodes, nodes, edges>>

(* ---------------------------------------------------------------- bounds *)

\* number of calls made on the model after its construction
MaxCalls == 2

\* number of edges in the edge list given to the constructor
MaxEbunch == 2

\* number of columns of a dataset given to fit
MaxColumns == 2

\* number of nodes in a list given to local_independencies
MaxVariables == 2

(* ----------------------------------------------------------------- nodes *)

\* Node identifiers are Python strings, modelled as sequences of characters:
\* the empty string, one-character names and a two-character name.
Node == {<<>>, <<"a">>, <<"b">>, <<"a", "b">>}

\* Python's None, the value of parent_node before any edge is recorded.
None == <<"None">>

\* Python truth value of a parent_node: None and the empty string are false.
Truthy(x) == x # None /\ Len(x) > 0

\* Python set(s) of a string s: the set of its one-character substrings.
CharsOf(s) == {<<s[i]>> : i \in 1..Len(s)}

Range(s) == {s[i] : i \in 1..Len(s)}

\* children_nodes is a Python list whose order no operation reads (the
\* constructor builds it from a set): it is kept as the number of times each
\* node occurs in it.
EmptyList == [n \in Node |-> 0]

ListOfSet(S) == [n \in Node |-> IF n \in S THEN 1 ELSE 0]

ListAppend(l, x) == [l EXCEPT ![x] = @ + 1]

\* Python set(l) of such a list.
SetOfList(l) == {n \in Node : l[n] > 0}

\* All sequences without repetition that enumerate the finite set S.
Orderings(S) ==
    {s \in [1..Cardinality(S) -> S] : \A i, j \in 1..Cardinality(S) : s[i] = s[j] => i = j}

\* Sequences of distinct elements of S of length lo..hi.
DistinctSeqs(S, lo, hi) ==
    UNION {Orderings(T) : T \in {X \in SUBSET S : Cardinality(X) >= lo /\ Cardinality(X) <= hi}}

(* ----------------------------------------------------------- graph store *)

\* Nodes reachable from `from` along directed edges of E (including `from`).
RECURSIVE ReachFrom(_, _, _)
ReachFrom(E, seen, k) ==
    IF k = 0 THEN seen
    ELSE ReachFrom(E, seen \cup {e[2] : e \in {f \in E : f[1] \in seen}}, k - 1)

HasPath(E, from, to) == to \in ReachFrom(E, {from}, Cardinality(Node))

\* The inherited add_edge refuses self loops and edges that close a cycle.
StoreRejects(N, E, u, v) ==
    \/ u = v
    \/ u \in N /\ v \in N /\ HasPath(E, v, u)

\* The inherited add_edge inserts the edge and creates missing end points.
StoreAddEdge(st, u, v) ==
    [st EXCEPT !.nodes = @ \cup {u, v}, !.edges = @ \cup {<<u, v>>}]

(* -------------------------------------------------------------- add_edge *)

AddEdgeResult(st, u, v) ==
    IF Truthy(st.parent_node) /\ u # st.parent_node
    THEN [st |-> st, err |-> "StructureViolation"]
    ELSE LET st1 == [st EXCEPT !.parent_node = u,
                               !.children_nodes = ListAppend(@, v)]
         IN IF StoreRejects(st.nodes, st.edges, u, v)
            THEN [st |-> st1, err |-> "StoreError"]
            ELSE [st |-> StoreAddEdge(st1, u, v), err |-> "ok"]

Cur ==
    [parent_node |-> parent_node, children_nodes |-> children_nodes,
     nodes |-> nodes, edges |-> edges]

\* last: the most recent call and its node arguments (u, v of add_edge; the
\* parent named to fit, as u, and whether it is a column of the dataset;
\* start and observed; variables, and whether it was given as one str), how
\* the call ended (err), whether fit reached the estimator, and what a query
\* returned (ret, rets).
NoCall ==
    [op |-> "none", u |-> None, v |-> None, in_columns |-> FALSE,
     start |-> None, observed |-> {}, single |-> FALSE, variables |-> <<>>,
     err |-> "ok", estimator |-> FALSE, ret |-> {}, rets |-> <<>>]

Install(st) ==
    /\ parent_node' = st.parent_node
    /\ children_nodes' = st.children_nodes
    /\ nodes' = st.nodes
    /\ edges' = st.edges

AddEdge(u, v) ==
    /\ ncalls < MaxCalls
    /\ LET r == AddEdgeResult(Cur, u, v)
       IN /\ Install(r.st)
          /\ last' = [NoCall EXCEPT !.op = "add_edge", !.u = u, !.v = v, !.err = r.err]
    /\ ncalls' = ncalls + 1

(* ----------------------------------------------------------- constructor *)

\* Edge sets the inherited constructor accepts: it inserts the edges one by
\* one through the inherited add_edge (the guard of this class is skipped,
\* parent_node not being an attribute yet), so the set is free of cycles.
Acyclic(E) == \A e \in E : ~HasPath(E, e[2], e[1])

Ebunches ==
    {E \in SUBSET (Node \X Node) : Cardinality(E) <= MaxEbunch /\ Acyclic(E)}

\* The loop over self.edges(): parent_node after visiting order[1..k], or
\* "raise" when an edge has another source than a truthy parent_node.
RECURSIVE InitLoop(_, _)
InitLoop(order, k) ==
    IF k = 0 THEN [parent |-> None, raised |-> FALSE]
    ELSE LET before == InitLoop(order, k - 1)
         IN IF before.raised THEN before
            ELSE IF Truthy(before.parent) /\ order[k][1] # before.parent
                 THEN [parent |-> before.parent, raised |-> TRUE]
                 ELSE [parent |-> order[k][1], raised |-> FALSE]

NodesOf(E) == {e[1] : e \in E} \cup {e[2] : e \in E}

Init ==
    /\ ncalls = 0
    /\ \E E \in Ebunches :
         /\ edges = E
         /\ nodes = NodesOf(E)
         /\ last = [NoCall EXCEPT !.op = "init"]
         /\ IF E = {}
            THEN parent_node = None /\ children_nodes = EmptyList
            ELSE \E order \in Orderings(E) :
                   LET r == InitLoop(order, Len(order))
                   IN /\ ~r.raised
                      /\ parent_node = r.parent
                      /\ children_nodes = ListOfSet(NodesOf(E) \ CharsOf(r.parent))

(* ------------------------------------------------------------------- fit *)

\* The loop over data.columns from position i on: one add_edge per column
\* other than the parent; the first add_edge that raises ends the loop and
\* keeps what the earlier calls (and its own first half) have written.
RECURSIVE FitLoop(_, _, _, _)
FitLoop(st, columns, parent, i) ==
    IF i > Len(columns) THEN [st |-> st, err |-> "ok"]
    ELSE IF columns[i] = parent THEN FitLoop(st, columns, parent, i + 1)
    ELSE LET r == AddEdgeResult(st, parent, columns[i])
         IN IF r.err # "ok" THEN r
            ELSE FitLoop(r.st, columns, parent, i + 1)

\* fit with the test of the parent column made after the loop over the columns.
FitResultLateCheck(st, columns, parent) ==
    LET r == FitLoop(st, columns, parent, 1)
    IN IF r.err = "ok" /\ parent \notin Range(columns)
       THEN [st |-> r.st, err |-> "DataSchemaError", estimator |-> FALSE]
       ELSE [st |-> r.st, err |-> r.err, estimator |-> r.err = "ok"]

\* estimator: whether the inherited fit (the parameter estimator) is called.
FitResult(st, columns, parent) ==
    IF parent \notin Range(columns)
    THEN [st |-> st, err |-> "DataSchemaError", estimator |-> FALSE]
    ELSE LET r == FitLoop(st, columns, parent, 1)
         IN [st |-> r.st, err |-> r.err, estimator |-> r.err = "ok"]

Datasets == DistinctSeqs(Node, 0, MaxColumns)

Fit(columns, parent) ==
    /\ ncalls < MaxCalls
    /\ LET r == FitResult(Cur, columns, parent)
       IN /\ Install(r.st)
          /\ last' = [NoCall EXCEPT !.op = "fit", !.u = parent,
                                    !.in_columns = parent \in Range(columns),
                                    !.err = r.err, !.estimator = r.estimator]
    /\ ncalls' = ncalls + 1

(* ---------------------------------------------------- active_trail_nodes *)

active_trail_nodes(st, start, observed) ==
    IF observed # {} /\ st.parent_node \in observed
    THEN CharsOf(start)
    ELSE st.nodes \ observed

ActiveTrailNodes(start, observed) ==
    /\ ncalls < MaxCalls
    /\ last' = [NoCall EXCEPT !.op = "active_trail_nodes", !.start = start,
                              !.observed = observed,
                              !.ret = active_trail_nodes(Cur, start, observed)]
    /\ ncalls' = ncalls + 1
    /\ UNCHANGED structure

(* --------------------------------------------------- local_independencies *)

\* The entry None of the returned list.
NoIndependence == [none |-> TRUE, event1 |-> None, event2 |-> {}, event3 |-> None]

\* Independencies([variable, list(set(children_nodes) - set(variable)), parent_node])
LocalIndependence(st, variable) ==
    IF variable # st.parent_node
    THEN [none |-> FALSE, event1 |-> variable,
          event2 |-> SetOfList(st.children_nodes) \ CharsOf(variable),
          event3 |-> st.parent_node]
    ELSE NoIndependence

\* variables is the list the loop runs over: [variables] for a str argument.
local_independencies(st, variables) ==
    [i \in 1..Len(variables) |-> LocalIndependence(st, variables[i])]

\* Each element of S as a sequence of length 0..n.
RECURSIVE SeqsUpTo(_, _)
SeqsUpTo(S, n) ==
    IF n = 0 THEN {<<>>}
    ELSE LET shorter == SeqsUpTo(S, n - 1)
         IN shorter \cup {Append(s, x) : s \in {t \in shorter : Len(t) = n - 1}, x \in S}

\* single: the argument is one str, otherwise a list of nodes.
LocalIndependencies(single, variables) ==
    /\ ncalls < MaxCalls
    /\ single => Len(variables) = 1
    /\ last' = [NoCall EXCEPT !.op = "local_independencies", !.single = single,
                              !.variables = variables,
                              !.rets = local_independencies(Cur, variables)]
    /\ ncalls' = ncalls + 1
    /\ UNCHANGED structure

(* ------------------------------------------------------------------ next *)

\* The operations that write the structure.
Next ==
    \/ \E u, v \in Node : AddEdge(u, v)
    \/ \E columns \in Datasets, parent \in Node : Fit(columns, parent)

Spec == Init /\ [][Next]_vars

\* The same with the two read-only queries.
NextQuery ==
    \/ \E u, v \in Node : AddEdge(u, v)
    \/ \E columns \in Datasets, parent \in Node : Fit(columns, parent)
    \/ \E start \in Node, observed \in SUBSET Node : ActiveTrailNodes(start, observed)
    \/ \E single \in BOOLEAN, variables \in SeqsUpTo(Node, MaxVariables) :
         LocalIndependencies(single, variables)

SpecQuery == Init /\ [][NextQuery]_vars

(* ---------------------------------------------------------------- claims *)

\* A star: a parent is recorded and every edge of the graph leaves it.
Star ==
    /\ parent_node # None
    /\ edges # {}
    /\ \A e \in edges : e[1] = parent_node

Targets == {e[2] : e \in edges}

\* C1: in every state reached from an empty or bulk-constructed model by
\* add_edge and fit calls, every edge of the graph has parent_node as its
\* source (so all edges share one source).
C1_EveryEdgeLeavesParent == \A e \in edges : e[1] = parent_node

\* C2: when parent_node is set and q differs from it, add_edge(q, r) fails
\* with the single-parent error and leaves parent_node, children_nodes and
\* the graph as they were.
C2_ForeignSourceRejected ==
    [][(parent_node # None /\ last'.op = "add_edge" /\ last'.u # parent_node)
       => (last'.err = "StructureViolation" /\ UNCHANGED structure)]_vars

\* C3: after every mutation children_nodes does not contain parent_node and
\* its elements are exactly the targets of the edges of the graph.
C3_ChildrenAreEdgeTargets ==
    /\ parent_node \notin SetOfList(children_nodes)
    /\ SetOfList(children_nodes) = Targets

\* C4: a model constructed from a non-empty edge list whose edges share one
\* source p has parent_node = p and children_nodes = the targets, which are
\* all nodes but p.
C4_ConstructedStar ==
    (last.op = "init" /\ edges # {})
    => \A p \in Node :
         (\A e \in edges : e[1] = p)
         => /\ parent_node = p
            /\ SetOfList(children_nodes) = Targets
            /\ SetOfList(children_nodes) = nodes \ {p}

\* C5: on a star, for a start node of the graph and an observed set that
\* contains parent_node, active_trail_nodes returns exactly {start}.
C5_ParentObservedIsolatesStart ==
    (last.op = "active_trail_nodes" /\ Star /\ last.start \in nodes
        /\ parent_node \in last.observed)
    => last.ret = {last.start}

\* The assertion "variable is independent of the other children given p".
ExpectedIndependence(variable) ==
    IF variable = parent_node THEN NoIndependence
    ELSE [none |-> FALSE, event1 |-> variable,
          event2 |-> SetOfList(children_nodes) \ {variable},
          event3 |-> parent_node]

\* C6: on a star, local_independencies returns one entry per queried node,
\* in the order queried: no assertion for the parent, and for any other node
\* the independence of that node from children_nodes minus itself given
\* the parent.
C6_OneEntryPerQueriedNode ==
    (last.op = "local_independencies" /\ Star /\ Range(last.variables) \subseteq nodes)
    => /\ Len(last.rets) = Len(last.variables)
       /\ \A i \in 1..Len(last.variables) :
            last.rets[i] = ExpectedIndependence(last.variables[i])

\* C7: when parent_node is fixed to p and the dataset has a column q other
\* than p, fit(data, q) fails with the single-parent error, changes nothing
\* of the structure and does not reach the estimator.
C7_FitUnderForeignParentRejected ==
    [][(parent_node # None /\ last'.op = "fit" /\ last'.in_columns
           /\ last'.u # parent_node)
       => /\ last'.err = "StructureViolation"
          /\ ~last'.estimator
          /\ UNCHANGED structure]_vars

\* C8: in any state, for a dataset whose columns do not include the named
\* parent, fit fails with the missing-column error before any add_edge or
\* estimator call: parent_node, children_nodes and the graph are unchanged.
C8_FitWithoutParentColumnFails ==
    [][(last'.op = "fit" /\ ~last'.in_columns)
       => /\ last'.err = "DataSchemaError"
          /\ ~last'.estimator
          /\ UNCHANGED structure]_vars

\* C8 witness: fit has failed on a missing parent column in a model that
\* already holds a parent and edges.
C8_Witness ==
    /\ last.op = "fit"
    /\ ~last.in_columns
    /\ last.err = "DataSchemaError"
    /\ edges # {}
    /\ parent_node # None

\* C9: a successful add_edge(p, v) called a second time raises nothing and
\* leaves parent_node, children_nodes and the graph as the first call left
\* them.
C9_AddEdgeIdempotent ==
    [][(last.op = "add_edge" /\ last.err = "ok" /\ last'.op = "add_edge"
           /\ last'.u = last.u /\ last'.v = last.v)
       => (last'.err = "ok" /\ UNCHANGED structure)]_vars

\* Reference d-separation: a trail is a sequence of distinct nodes joined by
\* edges in either direction; it is active given observed when every inner
\* node that is a collider has an observed descendant (itself included) and
\* every other inner node is unobserved.
IsTrail(t) ==
    \A i \in 1..(Len(t) - 1) : <<t[i], t[i + 1]>> \in edges \/ <<t[i + 1], t[i]>> \in edges

IsActive(t, observed) ==
    \A i \in 2..(Len(t) - 1) :
        IF <<t[i - 1], t[i]>> \in edges /\ <<t[i + 1], t[i]>> \in edges
        THEN ReachFrom(edges, {t[i]}, Cardinality(Node)) \cap observed # {}
        ELSE t[i] \notin observed

DSeparationReachable(start, observed) ==
    {t[Len(t)] : t \in {s \in DistinctSeqs(nodes, 1, Cardinality(nodes)) :
                          s[1] = start /\ IsTrail(s) /\ IsActive(s, observed)}}
    \ observed

\* C10: for a start node of the graph and an observed set without it,
\* active_trail_nodes returns the nodes that reference d-separation finds
\* connected to start by a trail active given observed.
C10_MatchesDSeparation ==
    (last.op = "active_trail_nodes" /\ last.start \in nodes
        /\ last.start \notin last.observed)
    => last.ret = DSeparationReachable(last.start, last.observed)

====
